---- MODULE Spec2Model ----
(***************************************************************************)
(* Model of the client-side Router of src/router/index.js: the route table *)
(* and _matchRoute, the asynchronous navigate pipeline with its plugin     *)
(* hooks, the popstate handler, and the pieces of the host they touch      *)
(* (window.history, window.location, document.title, dispatched events).   *)
(*                                                                         *)
(* An async navigate call is a process: the code between two awaits runs   *)
(* atomically on the event loop, so there is one action for the call       *)
(* itself (up to its first await) and one per await that resumes.  What a  *)
(* plugin hook does is outside the router: every call of a hook picks its  *)
(* outcome (returns, returns a guard, throws) nondeterministically.        *)
(***************************************************************************)
EXTENDS Naturals, Sequences, FiniteSets

VARIABLES
    config,         \* this.config: {fallback, plugins, routes} (never assigned after construction)
    route,          \* this.route: index into config.routes, 0 for undefined/null
    context,        \* this.context
    entries,        \* window.history: the session history entries (URLs)
    idx,            \* window.history: position of the current entry; window.location = entries[idx]
    docTitle,       \* document.title
    dispatched,     \* number of RouteEvents dispatched so far
    lastEvent,      \* <<context>> carried by the last RouteEvent dispatched, <<>> before the first
    pushCount,      \* number of window.history.pushState calls so far
    popCount,       \* number of popstate events handled so far
    booted,         \* whether the constructor's queued microtask has run
    calls,          \* number of navigate calls made so far
    commits,        \* number of navigate calls that reached the commit so far
    navs,           \* the navigate calls under way: locals of each and where it is suspended
    order,          \* the navigate calls that are suspended, in the order they were made
    click           \* <<the click event just handled and whether preventDefault was called>>,
                    \* <<>> when the last step was not a click

vars == <<config, route, context, entries, idx, docTitle, dispatched, lastEvent,
          pushCount, popCount, booted, calls, commits, navs, order,
          click>>

\* Number of navigate calls (the boot navigation included) in a behaviour.
MaxNavs == 2
\* Number of popstate (back/forward) events in a behaviour.
MaxPops == 1

\* The navigate calls that may be under way at once: nothing serializes navigate, and
\* two calls (the boot navigation and a click, say) are what it takes to overlap.
NavIds == {"A", "B"}

-----------------------------------------------------------------------------
(* URLs.  A URL is its pathname (a sequence of segments), its search (a     *)
(* sequence of <<key, value>> pairs) and its hash; the origin is fixed.     *)

Url(p, s, h) == [pathname |-> p, search |-> s, hash |-> h]

\* document.baseURI is the origin's root document, so './' resolves to the root directory.
BaseDir == <<>>

\* new URL(str, this.baseUrl): a string is relative to the base directory or absolute-path.
ResolveUrl(str) ==
    Url(IF str.rel THEN BaseDir \o str.pathname ELSE str.pathname, str.search, str.hash)

Str(rel, p, s, h) == [rel |-> rel, pathname |-> p, search |-> s, hash |-> h]

\* `${url.pathname}${url.search}` handed to pushState: the entry has no hash.
PathAndSearch(url) == Url(url.pathname, url.search, "")

\* Object.fromEntries(new URLSearchParams(url.search)): the last value of a key wins.
Query(search) ==
    { search[k] : k \in { j \in DOMAIN search :
                            \A l \in DOMAIN search : l > j => search[l][1] # search[j][1] } }

-----------------------------------------------------------------------------
(* Routes and the pattern matcher.  A path template is a sequence of        *)
(* segments, each a literal or a named group (":id").                       *)

Lit(s) == [kind |-> "lit", name |-> s]
Group(s) == [kind |-> "group", name |-> s]

\* route.urlPattern.exec(url): pathname-only match, search and hash are wildcards.
Exec(path, url) ==
    /\ Len(path) = Len(url.pathname)
    /\ \A k \in DOMAIN path : path[k].kind = "lit" => path[k].name = url.pathname[k]

\* match.pathname.groups
Groups(path, url) ==
    { <<path[k].name, url.pathname[k]>> : k \in { j \in DOMAIN path : path[j].kind = "group" } }

\* A title is a literal, or a function of {params, query, url}; a resolved title is
\* a sequence of text pieces (the function concatenates its label and the params).
Literal(s) == [fn |-> FALSE, text |-> s]
Computed(s) == [fn |-> TRUE, text |-> s]

ResolveTitle(title, params, query, url) ==
    IF title.fn THEN <<title.text, params>> ELSE <<title.text, {}>>

-----------------------------------------------------------------------------
(* Plugins: the hooks a plugin defines (any subset may be absent).          *)

Plugin(name, hooks) == [name |-> name, hooks |-> hooks]

AuthPlugin == Plugin("auth", {"shouldNavigate", "beforeNavigation"})
PagePlugin == Plugin("page", {"shouldNavigate", "afterNavigation"})

\* A route definition; render is optional, and absent unless the route is WithRender.
Route(path, title, plugins) ==
    [path |-> path, title |-> title, plugins |-> plugins, render |-> FALSE]

WithRender(r) == [r EXCEPT !.render = TRUE]

RouteB     == WithRender(Route(<<Lit("b")>>, Literal("B"), <<>>))
RouteBPage == WithRender(Route(<<Lit("b")>>, Literal("B"), <<PagePlugin>>))
RouteId    == Route(<<Group("id")>>, Computed("User"), <<>>)

\* The configurations the constructor is given.  "/b" matches both routes of a table.
RouteTables == { <<RouteB, RouteId>>, <<RouteBPage, RouteId>> }
Fallbacks == { <<>>, <<Str(FALSE, <<"a">>, <<>>, "")>> }      \* fallback absent, or "/a"
GlobalPlugins == { <<>>, <<AuthPlugin>> }
Configs == [routes : RouteTables, fallback : Fallbacks, plugins : GlobalPlugins]

\* The configurations in which a navigation runs the hooks of at most one plugin.
OnePluginConfigs ==
    { c \in Configs : c.plugins = <<>> \/ \A k \in DOMAIN c.routes : c.routes[k].plugins = <<>> }

\* window.location.href when the Router is constructed.
InitialUrl == Url(<<"a">>, <<>>, "")

\* The context field's initializer: {params: {}, query: {}, title: '', url: location}
InitialContext == [url |-> InitialUrl, title |-> <<"", {}>>, params |-> {}, query |-> {}]

\* What callers pass to navigate: a URL object or a string.
Targets ==
    { [string |-> FALSE, url |-> Url(<<"a">>, <<>>, "")],
      [string |-> TRUE,  url |-> Str(FALSE, <<"b">>, << <<"tab", "x">>, <<"tab", "posts">> >>, "#h")],
      [string |-> TRUE,  url |-> Str(TRUE, <<"x", "y">>, <<>>, "")] }

\* What a guard's redirect may be.
Redirects == { Str(TRUE, <<"b">>, <<>>, ""), Str(FALSE, <<"x", "y">>, <<>>, "") }

\* What one call of a hook does: it throws, returns nothing of interest ("ok"),
\* or, for shouldNavigate, returns a guard {condition, redirect}; a condition
\* throws, is false, or else is true.
Outcomes ==
    { [kind |-> k, redirect |-> Str(FALSE, <<>>, <<>>, "")] : k \in {"throw", "ok", "false"} }
        \cup { [kind |-> "guard", redirect |-> r] : r \in Redirects }

\* The texts of the model that contain 'mailto:'.
MailtoTexts == {"mailto:bob"}

\* a.href, the anchor's resolved href: its scheme and the rest as a URL.
Href(scheme, u) == [scheme |-> scheme, url |-> u]

\* The hrefs of the anchors on the page: links into the application, one of them
\* carrying an address in its query, and a mailto: link.
Hrefs ==
    { Href("https", Url(<<"a">>, <<>>, "")),
      Href("https", Url(<<"b">>, <<>>, "")),
      Href("https", Url(<<"b">>, << <<"to", "mailto:bob">> >>, "")),
      Href("mailto", Url(<<"bob">>, <<>>, "")) }

\* An <a> element: href is <<>> without one, target is <<>> without the attribute.
Anchors ==
    [href : {<<>>} \cup { <<h>> : h \in Hrefs },
     download : BOOLEAN,
     target : {<<>>, <<"">>, <<"_self">>, <<"_blank">>}]

PlainAnchor == [href |-> <<Href("https", Url(<<"b">>, <<>>, ""))>>, download |-> FALSE, target |-> <<>>]

\* A click event: path is <<the first A element of composedPath()>>, or <<>>.
ClickEvent(prevented, button, keys, path) ==
    [defaultPrevented |-> prevented, button |-> button, keys |-> keys, path |-> path]

\* The clicks of the model: a plain primary click on every anchor and on no anchor, and
\* on the plain anchor a click already prevented, with another button, or with a
\* modifier key held.
ClickEvents ==
    { ClickEvent(FALSE, 0, {}, p) : p \in {<<>>} \cup { <<a>> : a \in Anchors } }
        \cup { ClickEvent(TRUE, 0, {}, <<PlainAnchor>>), ClickEvent(FALSE, 1, {}, <<PlainAnchor>>) }
        \cup { ClickEvent(FALSE, 0, {k}, <<PlainAnchor>>) : k \in {"meta", "ctrl", "shift", "alt"} }

-----------------------------------------------------------------------------
(* Router getters and _matchRoute.                                          *)

\* get fallback(): new URL(this.config?.fallback || '/', this.baseUrl)
fallback ==
    IF config.fallback = <<>> THEN ResolveUrl(Str(FALSE, <<>>, <<>>, ""))
    ELSE ResolveUrl(config.fallback[1])

\* get url(): new URL(window.location.href)
url == entries[idx]

NoRoute == 0

\* (variant) of the routes that accept the url, the one registered last wins
LastMatch(u, k) ==
    LET hits == { j \in k..Len(config.routes) : Exec(config.routes[j].path, u) }
    IN  IF hits = {} THEN NoRoute ELSE CHOOSE j \in hits : \A l \in hits : l <= j

RECURSIVE FirstMatch(_, _)
\* for (const route of this.routes) { if (route.urlPattern.exec(url)) ... return route } return null
FirstMatch(u, k) ==
    IF k > Len(config.routes) THEN NoRoute
    ELSE IF Exec(config.routes[k].path, u) THEN k
    ELSE FirstMatch(u, k + 1)

\* The context _matchRoute assigns to this.context for route k and url u.
BuildContext(k, u) ==
    LET params == Groups(config.routes[k].path, u)
        query == Query(u.search)
    IN  [url |-> u,
         title |-> ResolveTitle(config.routes[k].title, params, query, u),
         params |-> params,
         query |-> query]

\* _matchRoute(u) run with this.context = ctx: the route returned and this.context
\* afterwards (assigned on a match, left alone on no match).
MatchRoute(u, ctx) ==
    LET k == FirstMatch(u, 1)
    IN  [route |-> k, context |-> IF k = NoRoute THEN ctx ELSE BuildContext(k, u)]

\* (variant) the fallback is never tried
MatchWithoutFallback(u, ctx) == MatchRoute(u, ctx)

\* this._matchRoute(u) || this._matchRoute(this.fallback)
MatchOrFallback(u, ctx) ==
    LET m == MatchRoute(u, ctx)
    IN  IF m.route # NoRoute THEN m ELSE MatchRoute(fallback, ctx)

\* What a call of render() comes to: it returns undefined, returns what the render
\* function of route k returns for the argument it is given, or raises a TypeError.
Undefined == [kind |-> "undefined", route |-> NoRoute, arg |-> <<>>]
Returned(k, arg) == [kind |-> "value", route |-> k, arg |-> <<arg>>]
TypeError == [kind |-> "TypeError", route |-> NoRoute, arg |-> <<>>]

\* render(): return this.route?.render({params, query, url, title}); calling a
\* property that is undefined raises a TypeError.
Render ==
    LET arg == [params |-> context.params, query |-> context.query, url |-> context.url,
                title |-> context.title]
    IN  IF route = NoRoute THEN Undefined
        ELSE IF ~config.routes[route].render THEN TypeError
        ELSE Returned(route, arg)

-----------------------------------------------------------------------------
(* The host and the router as one value, so that the steps of navigate can  *)
(* be composed as the code composes them.                                   *)

World ==
    [route |-> route, context |-> context, entries |-> entries, idx |-> idx,
     docTitle |-> docTitle, dispatched |-> dispatched, lastEvent |-> lastEvent,
     pushCount |-> pushCount]

\* window.history.pushState(null, '', entry): entries after the current one are dropped.
PushState(w, entry) ==
    [w EXCEPT !.entries = Append(SubSeq(w.entries, 1, w.idx), entry),
              !.idx = w.idx + 1,
              !.pushCount = w.pushCount + 1]

\* (variant) no event is dispatched for the context the last event carried
NotifyUrlChangedIfNew(w) ==
    IF w.lastEvent = <<w.context>> THEN w
    ELSE [w EXCEPT !.dispatched = w.dispatched + 1, !.lastEvent = <<w.context>>]

\* (variant) the event is dispatched twice
NotifyUrlChangedTwice(w) ==
    [w EXCEPT !.dispatched = w.dispatched + 2, !.lastEvent = <<w.context>>]

\* _notifyUrlChanged(): this.dispatchEvent(new RouteEvent(this.context))
NotifyUrlChanged(w) ==
    [w EXCEPT !.dispatched = w.dispatched + 1, !.lastEvent = <<w.context>>]

\* this.route = this._matchRoute(u) || this._matchRoute(this.fallback)
AssignRoute(w, u) ==
    LET m == MatchOrFallback(u, w.context)
    IN  [w EXCEPT !.route = m.route, !.context = m.context]

-----------------------------------------------------------------------------
(* One navigate call.  pc is the await it is suspended at; url, plugins, i, *)
(* result and condition are its locals.  The other fields record what the   *)
(* call did: the url it was called with, the hooks it invoked, in order,    *)
(* the number of redirects it took, whether it reached the commit and the   *)
(* error it ended with.                                                     *)

NoUrl == Url(<<>>, <<>>, "")

IdleNav ==
    [pc |-> "idle", url |-> NoUrl, plugins |-> <<>>, i |-> 0, result |-> <<>>,
     condition |-> TRUE, error |-> "none", target |-> NoUrl, hooks |-> <<>>, redirects |-> 0,
     committed |-> FALSE]

Invoked(nav, hook, k) == [nav EXCEPT !.hooks = Append(@, <<hook, nav.plugins[k].name>>)]

Defines(nav, hook, k) == hook \in nav.plugins[k].hooks

\* (variant) the exception is caught and logged, and the call goes on to its before phase
ThrowSwallowed(w, nav, error) ==
    [w |-> w, nav |-> [nav EXCEPT !.pc = "beforeNavigation", !.i = 0, !.error = error]]

\* (variant) an exception after the commit takes the pushed entry back
ThrowRollingBack(w, nav, error) ==
    [w |-> IF nav.committed
           THEN [w EXCEPT !.entries = SubSeq(w.entries, 1, w.idx - 1), !.idx = w.idx - 1,
                          !.pushCount = w.pushCount - 1]
           ELSE w,
     nav |-> [nav EXCEPT !.pc = "failed", !.error = error]]

\* An exception leaves navigate: the returned promise rejects, the call is over.
Throw(w, nav, error) == [w |-> w, nav |-> [nav EXCEPT !.pc = "failed", !.error = error]]

Suspend(w, nav, pc, k) == [w |-> w, nav |-> [nav EXCEPT !.pc = pc, !.i = k]]

\* for (const plugin of plugins) await plugin?.afterNavigation?.(this.context), from plugin k
AfterLoop(w, nav, k, o) ==
    IF k > Len(nav.plugins) THEN [w |-> w, nav |-> [nav EXCEPT !.pc = "done", !.i = 0]]
    ELSE IF ~Defines(nav, "afterNavigation", k) THEN Suspend(w, nav, "afterNavigation", k)
    ELSE IF o.kind = "throw" THEN Throw(w, Invoked(nav, "afterNavigation", k), "afterNavigation")
    ELSE Suspend(w, Invoked(nav, "afterNavigation", k), "afterNavigation", k)

\* pushState(`${url.pathname}${url.search}`); document.title = this.context.title;
\* this._notifyUrlChanged()
Commit(w, u) ==
    LET pushed == PushState(w, PathAndSearch(u))
    IN  NotifyUrlChanged([pushed EXCEPT !.docTitle = w.context.title])

\* for (const plugin of plugins) await plugin?.beforeNavigation?.(this.context), from
\* plugin k; then the commit and the after loop.
BeforeLoop(w, nav, k, o) ==
    IF k > Len(nav.plugins) THEN AfterLoop(Commit(w, nav.url), [nav EXCEPT !.committed = TRUE], 1, o)
    ELSE IF ~Defines(nav, "beforeNavigation", k) THEN Suspend(w, nav, "beforeNavigation", k)
    ELSE IF o.kind = "throw" THEN Throw(w, Invoked(nav, "beforeNavigation", k), "beforeNavigation")
    ELSE Suspend(w, Invoked(nav, "beforeNavigation", k), "beforeNavigation", k)

\* if (!this.route) throw new Error('[ROUTER] No route or fallback matched ...')
RouteCheck(w, nav, o) ==
    IF w.route = NoRoute THEN Throw(w, nav, "unroutable") ELSE BeforeLoop(w, nav, 1, o)

\* for (const plugin of plugins) { const result = await plugin?.shouldNavigate?.(this.context)
\* ... }, from plugin k; then the route check and what follows it.
GuardLoop(w, nav, k, o) ==
    IF k > Len(nav.plugins) THEN RouteCheck(w, nav, o)
    ELSE IF ~Defines(nav, "shouldNavigate", k)
        THEN Suspend(w, [nav EXCEPT !.result = <<>>], "shouldNavigate", k)
    ELSE IF o.kind = "throw" THEN Throw(w, Invoked(nav, "shouldNavigate", k), "shouldNavigate")
    ELSE Suspend(w, [Invoked(nav, "shouldNavigate", k) EXCEPT
                        !.result = IF o.kind = "guard" THEN <<o.redirect>> ELSE <<>>],
                 "shouldNavigate", k)

\* (variant) the route's plugins run before the global ones
CallRoutePluginsFirst(w, nav, target, o) ==
    LET u == IF target.string THEN ResolveUrl(target.url) ELSE target.url
        w1 == AssignRoute(w, u)
        plugins == (IF w1.route = NoRoute THEN <<>> ELSE config.routes[w1.route].plugins)
                       \o config.plugins
        nav1 == [nav EXCEPT !.url = u, !.target = u, !.plugins = plugins]
    IN  GuardLoop(w1, nav1, 1, o)

\* navigate(target) up to its first await.
Call(w, nav, target, o) ==
    LET u == IF target.string THEN ResolveUrl(target.url) ELSE target.url
        w1 == AssignRoute(w, u)
        plugins == config.plugins \o (IF w1.route = NoRoute THEN <<>>
                                      ELSE config.routes[w1.route].plugins)
        nav1 == [nav EXCEPT !.url = u, !.target = u, !.plugins = plugins]
    IN  GuardLoop(w1, nav1, 1, o)

\* The await of shouldNavigate's result resumes: if (result) await result.condition()
ResumeShouldNavigate(w, nav, o) ==
    IF nav.result = <<>> THEN GuardLoop(w, nav, nav.i + 1, o)
    ELSE IF o.kind = "throw" THEN Throw(w, Invoked(nav, "condition", nav.i), "condition")
    ELSE Suspend(w, [Invoked(nav, "condition", nav.i) EXCEPT !.condition = (o.kind # "false")],
                 "condition", nav.i)

\* (variant) after a redirect the guards are run again from the first plugin
ResumeConditionRestarting(w, nav, o) ==
    IF nav.condition THEN GuardLoop(w, nav, nav.i + 1, o)
    ELSE LET u == ResolveUrl(nav.result[1])
             nav1 == [nav EXCEPT !.url = u, !.redirects = @ + 1]
         IN  GuardLoop(AssignRoute(w, u), nav1, 1, o)

\* (variant) a redirect replaces the url and the route is not matched again
ResumeConditionWithoutMatch(w, nav, o) ==
    IF nav.condition THEN GuardLoop(w, nav, nav.i + 1, o)
    ELSE GuardLoop(w, [nav EXCEPT !.url = ResolveUrl(nav.result[1]), !.redirects = @ + 1],
                   nav.i + 1, o)

\* The await of the condition resumes: if (!condition) { url = new URL(result.redirect,
\* this.baseUrl); this.route = ... }, then the next plugin.
ResumeCondition(w, nav, o) ==
    IF nav.condition THEN GuardLoop(w, nav, nav.i + 1, o)
    ELSE LET u == ResolveUrl(nav.result[1])
             nav1 == [nav EXCEPT !.url = u, !.redirects = @ + 1]
         IN  GuardLoop(AssignRoute(w, u), nav1, nav.i + 1, o)

ResumeBeforeNavigation(w, nav, o) == BeforeLoop(w, nav, nav.i + 1, o)

ResumeAfterNavigation(w, nav, o) == AfterLoop(w, nav, nav.i + 1, o)

\* a.href.includes('mailto:')
IncludesMailto(h) ==
    \/ h.scheme = "mailto"
    \/ \E k \in DOMAIN h.url.search :
          h.url.search[k][1] \in MailtoTexts \/ h.url.search[k][2] \in MailtoTexts

\* this.url.href === new URL(a.href).href
SameHref(current, h) == h.scheme = "https" /\ h.url = current

\* _onAnchorClick(e) with window.location = current: whether it calls e.preventDefault()
\* and the url it calls navigate with, <<>> when it returns before.
AnchorClick(e, current) ==
    LET ignored == [prevented |-> FALSE, navigate |-> <<>>]
    IN  IF e.defaultPrevented \/ e.button # 0 \/ "meta" \in e.keys \/ "ctrl" \in e.keys
            \/ "shift" \in e.keys THEN ignored
        ELSE IF e.path = <<>> THEN ignored
        ELSE IF e.path[1].href = <<>> THEN ignored
        ELSE IF SameHref(current, e.path[1].href[1]) THEN ignored
        ELSE IF e.path[1].download \/ IncludesMailto(e.path[1].href[1]) THEN ignored
        ELSE IF e.path[1].target \notin {<<>>, <<"">>, <<"_self">>} THEN ignored
        ELSE [prevented |-> TRUE, navigate |-> <<e.path[1].href[1].url>>]

-----------------------------------------------------------------------------
(* Actions.                                                                 *)

InitWith(configs) ==
    /\ config \in configs
    /\ route = NoRoute
    /\ context = InitialContext
    /\ entries = <<InitialUrl>>
    /\ idx = 1
    /\ docTitle = <<"", {}>>
    /\ dispatched = 0
    /\ lastEvent = <<>>
    /\ pushCount = 0
    /\ popCount = 0
    /\ booted = FALSE
    /\ calls = 0
    /\ commits = 0
    /\ navs = [n \in NavIds |-> IdleNav]
    /\ order = <<>>
    /\ click = <<>>

InFlight == { n \in NavIds : navs[n].pc \notin {"idle", "done", "failed"} }

\* Once a call is over and another step is taken, its locals are gone.
Retire(nav) == IF nav.pc \in {"done", "failed"} THEN IdleNav ELSE nav

\* A call that is not under way: the place of the next call.
Free == { n \in NavIds : navs[n].pc \in {"idle", "done", "failed"} }
NextNav == CHOOSE n \in Free : \A m \in Free : navs[m].pc = "idle" => navs[n].pc = "idle"

\* The suspended calls after a step of call n, which is over after it or is not.
Reorder(calling, n, over) ==
    LET others == SelectSeq(calling, LAMBDA m : m # n)
    IN  IF over THEN others ELSE IF Len(others) = Len(calling) THEN Append(calling, n) ELSE calling

\* The step of call n ends in r: the router, the host and the call's record are r's.
Becomes(n, r) ==
    /\ route' = r.w.route
    /\ context' = r.w.context
    /\ entries' = r.w.entries
    /\ idx' = r.w.idx
    /\ docTitle' = r.w.docTitle
    /\ dispatched' = r.w.dispatched
    /\ lastEvent' = r.w.lastEvent
    /\ pushCount' = r.w.pushCount
    /\ commits' = commits + (IF r.nav.committed /\ ~Retire(navs[n]).committed THEN 1 ELSE 0)
    /\ navs' = [m \in NavIds |-> IF m = n THEN r.nav ELSE Retire(navs[m])]
    /\ order' = Reorder(order, n, r.nav.pc \in {"done", "failed"})

\* The microtask the constructor queued: this.navigate(new URL(window.location.href))
Boot ==
    /\ ~booted
    /\ Free # {}
    /\ booted' = TRUE
    /\ calls' = calls + 1
    /\ \E r \in { Call(World, IdleNav, [string |-> FALSE, url |-> url], o) : o \in Outcomes } :
          Becomes(NextNav, r)
    /\ click' = <<>>
    /\ UNCHANGED <<config, popCount>>

\* A caller (or the anchor click handler) calls navigate(target).
Navigate ==
    /\ calls + (IF booted THEN 0 ELSE 1) < MaxNavs
    /\ Free # {}
    /\ calls' = calls + 1
    /\ \E target \in Targets :
          \E r \in { Call(World, IdleNav, target, o) : o \in Outcomes } : Becomes(NextNav, r)
    /\ click' = <<>>
    /\ UNCHANGED <<config, popCount, booted>>

\* Call n resumes from the await it is suspended at.
Resume(n) ==
    /\ n \in InFlight
    /\ \/ /\ navs[n].pc = "shouldNavigate"
          /\ \E r \in { ResumeShouldNavigate(World, navs[n], o) : o \in Outcomes } : Becomes(n, r)
       \/ /\ navs[n].pc = "condition"
          /\ \E r \in { ResumeCondition(World, navs[n], o) : o \in Outcomes } : Becomes(n, r)
       \/ /\ navs[n].pc = "beforeNavigation"
          /\ \E r \in { ResumeBeforeNavigation(World, navs[n], o) : o \in Outcomes } : Becomes(n, r)
       \/ /\ navs[n].pc = "afterNavigation"
          /\ \E r \in { ResumeAfterNavigation(World, navs[n], o) : o \in Outcomes } : Becomes(n, r)
    /\ click' = <<>>
    /\ UNCHANGED <<config, popCount, booted, calls>>

\* The user goes back or forward: window.location becomes the entry at j, then
\* _onPopState: this.route = this._matchRoute(new URL(window.location.href));
\* this._notifyUrlChanged()
OnPopState ==
    /\ booted
    /\ popCount < MaxPops
    /\ \E j \in {idx - 1, idx + 1} \cap DOMAIN entries :
          \E m \in {MatchRoute(entries[j], context)} :
          \E w \in {NotifyUrlChanged([World EXCEPT !.idx = j, !.route = m.route,
                                                   !.context = m.context])} :
              /\ idx' = j
              /\ route' = w.route
              /\ context' = w.context
              /\ dispatched' = w.dispatched
              /\ lastEvent' = w.lastEvent
    /\ popCount' = popCount + 1
    /\ navs' = [m \in NavIds |-> Retire(navs[m])]
    /\ click' = <<>>
    /\ UNCHANGED <<config, entries, docTitle, pushCount, booted, calls, commits, order>>

\* The user clicks: _onAnchorClick(e), and the navigate call it makes up to its first
\* await.
OnAnchorClick ==
    /\ booted
    /\ calls < MaxNavs
    /\ Free # {}
    /\ \E e \in ClickEvents :
          \E c \in {AnchorClick(e, url)} :
              /\ click' = <<[event |-> e, prevented |-> c.prevented]>>
              /\ IF c.navigate = <<>>
                 THEN /\ navs' = [m \in NavIds |-> Retire(navs[m])]
                      /\ UNCHANGED <<route, context, entries, idx, docTitle, dispatched,
                                     lastEvent, pushCount, calls, commits, order>>
                 ELSE /\ calls' = calls + 1
                      /\ \E r \in { Call(World, IdleNav, [string |-> FALSE, url |-> c.navigate[1]], o) :
                                       o \in Outcomes } : Becomes(NextNav, r)
    /\ UNCHANGED <<config, popCount, booted>>

Next ==
    \/ Boot
    \/ Navigate
    \/ \E n \in NavIds : Resume(n)
    \/ OnPopState

\* Overlapping navigations: navigate calls and popstate events in any interleaving the
\* event loop allows, in the configurations with at most one plugin per navigation.
Init == InitWith(OnePluginConfigs)

Spec == Init /\ [][Next]_vars

\* The same router, in every configuration, when nothing overlaps a navigation: no
\* navigate call and no popstate event while a call is suspended.
SerialInit == InitWith(Configs)

SerialNext ==
    \/ InFlight = {} /\ Boot
    \/ InFlight = {} /\ Navigate
    \/ \E n \in NavIds : Resume(n)
    \/ InFlight = {} /\ OnPopState

SerialSpec == SerialInit /\ [][SerialNext]_vars

\* The same, when every hook awaited returns or throws: a suspended call resumes.
LiveSpec == SerialSpec /\ \A n \in NavIds : WF_vars(Resume(n))

\* The same, with the user's clicks on the page's anchors in place of the calls of
\* navigate by the application.
ClickNext ==
    \/ InFlight = {} /\ Boot
    \/ InFlight = {} /\ OnAnchorClick
    \/ \E n \in NavIds : Resume(n)
    \/ InFlight = {} /\ OnPopState

ClickSpec == SerialInit /\ [][ClickNext]_vars

-----------------------------------------------------------------------------
(* Properties.                                                              *)

Matches(u) == FirstMatch(u, 1) # NoRoute

\* The step is the call of navigate that becomes n.
CallStep(n) == calls' = calls + 1 /\ n = NextNav

\* The step takes call n through the commit.
CommitStep(n) == navs'[n].committed /\ ~Retire(navs[n]).committed

\* The hooks that run before the commit.
PreCommitHooks == {"shouldNavigate", "condition", "beforeNavigation"}

\* C1: a navigate call whose target matches no route, with a fallback that matches no
\* route, never completes and never commits: it pushes no history entry and emits no
\* notification (a hook that throws first is not held against the claim).
C1_UnroutableNeverCommits ==
    \A n \in NavIds :
        (navs[n].pc # "idle" /\ ~Matches(navs[n].target) /\ ~Matches(fallback))
            => (~navs[n].committed /\ navs[n].pc # "done")

\* C2: a navigate call that fails as unroutable leaves this.route, this.context and the
\* history as they were before the call; stated for the calls that fail before their
\* first await, where "before the call" is the state the step starts in.
C2_UnroutableLeavesStateAlone ==
    [][\A n \in NavIds :
          (CallStep(n) /\ navs'[n].pc = "failed" /\ navs'[n].error = "unroutable")
              => (route' = route /\ context' = context /\ entries' = entries /\ idx' = idx)]_vars

\* C3: in every reachable state this.route and this.context are in sync: the context is
\* the one built from the current route's match of the context's url, and the route is
\* null only while the context is still the constructor's.
C3_RouteAndContextInSync ==
    IF route = NoRoute THEN context = InitialContext
    ELSE /\ route = FirstMatch(context.url, 1)
         /\ context = BuildContext(route, context.url)

\* C4: when a navigation that took a guard redirect commits, and its last redirect R
\* matches a route, then the current route, the current context, the notified context,
\* the document title and the pushed history entry are those of R.
C4_RedirectCommitsRedirectTarget ==
    \A n \in NavIds :
        (navs[n].committed /\ navs[n].redirects > 0 /\ Matches(navs[n].url))
            => LET k == FirstMatch(navs[n].url, 1)
                   c == BuildContext(k, navs[n].url)
               IN  /\ route = k
                   /\ context = c
                   /\ lastEvent = <<c>>
                   /\ docTitle = c.title
                   /\ entries[idx] = PathAndSearch(navs[n].url)

C4_Witness ==
    \E n \in NavIds :
        /\ navs[n].committed /\ navs[n].redirects > 0 /\ Matches(navs[n].url)
        /\ Matches(navs[n].target)
        /\ FirstMatch(navs[n].target, 1) # FirstMatch(navs[n].url, 1)

\* C5: a navigation whose target matches no route, with a fallback that matches one and
\* no guard redirect, does not fail as unroutable, and when it commits the current route
\* and context (and the notified context) are the fallback route and the context built
\* from the fallback url.
C5_FallbackIsCommitted ==
    \A n \in NavIds :
        (navs[n].pc # "idle" /\ navs[n].redirects = 0
            /\ ~Matches(navs[n].target) /\ Matches(fallback))
            => /\ navs[n].error # "unroutable"
               /\ navs[n].committed =>
                     /\ route = FirstMatch(fallback, 1)
                     /\ context = BuildContext(FirstMatch(fallback, 1), fallback)
                     /\ lastEvent = <<context>>

C5_Witness ==
    \E n \in NavIds :
        /\ navs[n].committed /\ navs[n].redirects = 0
        /\ ~Matches(navs[n].target) /\ Matches(fallback)
        /\ context.url = fallback /\ context.url # navs[n].target

\* C6: when shouldNavigate, a condition or beforeNavigation throws, the call is over
\* (failed, so that no further hook of it runs) without having committed, and the step
\* in which it throws pushes no history entry, sets no title and emits no notification.
C6_ThrowBeforeCommitAborts ==
    [][\A n \in NavIds :
          navs'[n].error \in PreCommitHooks
              => /\ navs'[n].pc = "failed"
                 /\ ~navs'[n].committed
                 /\ navs'[n].hooks[Len(navs'[n].hooks)][1] = navs'[n].error
                 /\ \/ navs'[n] = navs[n]
                    \/ /\ entries' = entries /\ idx' = idx /\ pushCount' = pushCount
                       /\ docTitle' = docTitle
                       /\ dispatched' = dispatched /\ lastEvent' = lastEvent]_vars

C6_Witness ==
    \E n \in NavIds :
        /\ navs[n].pc = "failed" /\ navs[n].error = "beforeNavigation"
        /\ Len(navs[n].hooks) > 1

\* C7: a navigate call that has not reached the commit at its first await (it is
\* suspended at a hook, or was aborted) leaves this.route and this.context as they were
\* before the call.
C7_CurrentSwappedOnlyAtCommit ==
    [][\A n \in NavIds :
          (CallStep(n) /\ ~navs'[n].committed) => (route' = route /\ context' = context)]_vars

\* C8: when afterNavigation throws, the call fails and its commit stands: the pushed
\* entry is still the current (and last) history entry, the title is the committed
\* context's, the current route and context are the committed ones and the notification
\* emitted for it is not taken back.
C8_ThrowAfterCommitKeepsCommit ==
    \A n \in NavIds :
        (navs[n].pc = "failed" /\ navs[n].error = "afterNavigation")
            => /\ navs[n].committed
               /\ idx = Len(entries) /\ entries[idx] = PathAndSearch(navs[n].url)
               /\ pushCount = commits
               /\ route # NoRoute
               /\ docTitle = context.title
               /\ lastEvent = <<context>>
               /\ dispatched = popCount + commits

C8_Witness ==
    \E n \in NavIds :
        /\ navs[n].pc = "failed" /\ navs[n].error = "afterNavigation"
        /\ Len(navs[n].plugins) > 1

\* C9: the notifications emitted by navigate (all but those of popstate events) and
\* the history entries pushed are as many as the navigate calls that reached the
\* commit: one each per commit, none for a call that failed before it.
C9_OneNotificationPerCommit ==
    /\ dispatched = popCount + commits
    /\ pushCount = commits

C9_Witness ==
    /\ commits > 0 /\ calls > commits /\ popCount > 0
    /\ \E n \in NavIds : navs[n].pc = "failed" /\ ~navs[n].committed

\* C10: when only navigate calls overlap, the notification and the document title a
\* call produces at its commit carry the context that call resolved, that is the
\* context matched for the url it pushes.
C10_CommitCarriesOwnContext ==
    [][\A n \in NavIds :
          (CommitStep(n) /\ popCount = 0)
              => LET own == MatchOrFallback(navs'[n].url, context).context
                 IN  lastEvent' = <<own>> /\ docTitle' = own.title]_vars

\* C11: when call A was made before call B, both were suspended at once, B has
\* committed and A commits after it, then from A's commit on the current route, the
\* current context and the most recent history entry are A's (the route and context
\* matched for the url A pushes).
C11_LaterCommitOverwrites ==
    [][\A a, b \in NavIds :
          (order = <<a, b>> /\ navs[b].committed /\ CommitStep(a))
              => LET own == MatchOrFallback(navs'[a].url, context)
                 IN  /\ entries'[idx'] = PathAndSearch(navs'[a].url)
                     /\ route' = own.route
                     /\ context' = own.context]_vars

\* C12: a navigate call for the url that is already current (window.location is its
\* path and query, and the last notification carried the context of that url), whose
\* guards let it through as they did before, emits one more notification at its
\* commit, and the current context and the notified context are then identical to
\* those before the call.
C12_NavigateTwiceSameContext ==
    [][\A n \in NavIds :
          (/\ CommitStep(n) /\ navs'[n].redirects = 0
           /\ lastEvent # <<>> /\ lastEvent[1].url = navs'[n].target
           /\ url = PathAndSearch(navs'[n].target))
              => /\ dispatched' = dispatched + 1
                 /\ lastEvent' = lastEvent
                 /\ context' = lastEvent[1]]_vars

C12_Witness ==
    \E n \in NavIds :
        /\ navs[n].committed /\ navs[n].redirects = 0 /\ Len(navs[n].hooks) > 0
        /\ commits = 2 /\ dispatched = 2 /\ popCount = 0
        /\ entries[idx] = PathAndSearch(navs[n].target) /\ entries[idx - 1] = entries[idx]
        /\ lastEvent = <<context>> /\ context.url = navs[n].target

\* The urls handed to _matchRoute: navigate's targets, the redirects, the fallback and
\* the history entries.
MatchedUrls ==
    { IF t.string THEN ResolveUrl(t.url) ELSE t.url : t \in Targets }
        \cup { ResolveUrl(r) : r \in Redirects }
        \cup { fallback }
        \cup { entries[j] : j \in DOMAIN entries }

\* The routes whose matcher accepts u.
Accepting(u) == { k \in DOMAIN config.routes : Exec(config.routes[k].path, u) }

\* C13: for every url and route table _matchRoute returns the first route, in
\* registration order, whose matcher accepts the url, with the context built from that
\* route's match (its groups as params); it returns no route, and leaves the context
\* alone, only when no route accepts the url.  The current route is always such a
\* first match for the current context's url.
C13_FirstMatchWins ==
    /\ \A u \in MatchedUrls :
          LET m == MatchRoute(u, context)
          IN  IF Accepting(u) = {} THEN m.route = NoRoute /\ m.context = context
              ELSE /\ m.route \in Accepting(u)
                   /\ \A k \in Accepting(u) : m.route <= k
                   /\ m.context.url = u
                   /\ m.context.params = Groups(config.routes[m.route].path, u)
    /\ route # NoRoute =>
          (route \in Accepting(context.url) /\ \A k \in Accepting(context.url) : route <= k)

C13_Witness ==
    /\ route # NoRoute /\ Cardinality(Accepting(context.url)) > 1
    /\ lastEvent = <<context>>
    /\ \E u \in MatchedUrls : Accepting(u) = {}

\* What C14 lists as the exclusions of a click, for the click e with window.location =
\* current; a mail link is an anchor whose href has the mailto: scheme.
Excluded(e, current) ==
    \/ e.defaultPrevented
    \/ e.button # 0
    \/ e.keys \cap {"meta", "ctrl", "shift"} # {}
    \/ e.path = <<>>
    \/ e.path # <<>> /\ e.path[1].href = <<>>
    \/ e.path # <<>> /\ e.path[1].href # <<>> /\
          \/ SameHref(current, e.path[1].href[1])
          \/ e.path[1].download
          \/ e.path[1].href[1].scheme = "mailto"
          \/ e.path[1].target \notin {<<>>, <<"">>, <<"_self">>}

\* C14: a click on an anchor calls navigate, and has its default prevented by the
\* router, if and only if none of the exclusions holds; an excluded click makes no
\* navigate call and its default is not prevented.
C14_ClickNavigatesUnlessExcluded ==
    [][click' # <<>> =>
          /\ (calls' = calls + 1) <=> ~Excluded(click'[1].event, url)
          /\ click'[1].prevented <=> ~Excluded(click'[1].event, url)]_vars

\* C15: a popstate event invokes no plugin hook and pushes no history entry; it sets
\* the current route to the match of the current url (window.location), emits exactly
\* one notification, and the context it makes current and notifies is the one
\* computed for that url.
C15_PopStateRecomputes ==
    [][popCount' = popCount + 1 =>
          LET u == entries'[idx']
          IN  /\ \A n \in NavIds : navs'[n].hooks = Retire(navs[n]).hooks
              /\ entries' = entries /\ pushCount' = pushCount
              /\ dispatched' = dispatched + 1
              /\ route' = FirstMatch(u, 1)
              /\ lastEvent' = <<context'>>
              /\ context'.url = u /\ context'.query = Query(u.search)]_vars

\* C16: render() returns what the current route's render function returns for the
\* current context, and returns undefined, raising nothing, when there is no current
\* route and when the current route has no render function.
C16_RenderOrUndefined ==
    Render = IF route # NoRoute /\ config.routes[route].render
             THEN Returned(route, context)
             ELSE Undefined

\* The phase a hook belongs to: guard, before, after.
Phase(hook) ==
    IF hook \in {"shouldNavigate", "condition"} THEN 1 ELSE IF hook = "beforeNavigation" THEN 2 ELSE 3

\* The place of the plugin called name in the list of call nav.
PluginIndex(nav, name) == CHOOSE k \in DOMAIN nav.plugins : nav.plugins[k].name = name

\* The plugins call nav invoked hook on, in the order of the invocations.
InvokedOn(nav, hook) ==
    LET calls_ == SelectSeq(nav.hooks, LAMBDA h : h[1] = hook)
    IN  [k \in DOMAIN calls_ |-> calls_[k][2]]

\* The plugins of call nav that define hook, in the order of its list.
Defining(nav, hook) ==
    LET ps == SelectSeq(nav.plugins, LAMBDA q : hook \in q.hooks)
    IN  [k \in DOMAIN ps |-> ps[k].name]

\* The route a call for target resolves to when it is made.
ResolvedRoute(target) ==
    IF Matches(target) THEN FirstMatch(target, 1) ELSE FirstMatch(fallback, 1)

\* C17: within one navigation the hooks are invoked phase after phase (shouldNavigate
\* and condition calls, then beforeNavigation calls, then afterNavigation calls) and in
\* each phase in the order of the plugin list, which is the global plugins followed by
\* the plugins of the route the call resolved to; the commit is made exactly between
\* the before and the after phase, a finished call has run every beforeNavigation and
\* afterNavigation hook of its list, and a step invokes at most one hook, the call
\* being suspended on it (or over) afterwards.
C17_PhasesInOrder ==
    /\ [](\A n \in NavIds :
            LET nav == navs[n]
                k == ResolvedRoute(nav.target)
            IN  nav.pc # "idle" =>
                    /\ nav.plugins = config.plugins \o
                           (IF k = NoRoute THEN <<>> ELSE config.routes[k].plugins)
                    /\ \A i, j \in DOMAIN nav.hooks :
                           i < j => /\ Phase(nav.hooks[i][1]) <= Phase(nav.hooks[j][1])
                                    /\ Phase(nav.hooks[i][1]) = Phase(nav.hooks[j][1]) =>
                                           PluginIndex(nav, nav.hooks[i][2])
                                               <= PluginIndex(nav, nav.hooks[j][2])
                                    /\ nav.hooks[i] # nav.hooks[j]
                                    /\ nav.hooks[j][1] = "shouldNavigate" =>
                                           nav.hooks[i][2] # nav.hooks[j][2]
                    /\ nav.committed <=>
                           \/ nav.pc \in {"afterNavigation", "done"}
                           \/ nav.pc = "failed" /\ nav.error = "afterNavigation"
                    /\ nav.committed =>
                           InvokedOn(nav, "beforeNavigation") = Defining(nav, "beforeNavigation")
                    /\ nav.pc = "done" =>
                           InvokedOn(nav, "afterNavigation") = Defining(nav, "afterNavigation"))
    /\ [][\A n \in NavIds :
            LET old == Retire(navs[n]).hooks
                new == navs'[n].hooks
            IN  new # old =>
                    /\ new = Append(old, new[Len(new)])
                    /\ \/ navs'[n].pc = new[Len(new)][1]
                       \/ navs'[n].pc = "failed" /\ navs'[n].error = new[Len(new)][1]]_vars

C17_Witness ==
    \E n \in NavIds :
        /\ navs[n].pc = "done" /\ Len(navs[n].plugins) = 2
        /\ navs[n].plugins[1] = AuthPlugin /\ navs[n].plugins[2] = PagePlugin
        /\ navs[n].hooks = << <<"shouldNavigate", "auth">>, <<"shouldNavigate", "page">>,
                               <<"condition", "page">>, <<"beforeNavigation", "auth">>,
                               <<"afterNavigation", "page">> >>

\* The effective plugin list of route k: the global plugins, then the route's.
EffectivePlugins(k) ==
    config.plugins \o (IF k = NoRoute THEN <<>> ELSE config.routes[k].plugins)

\* The names of the plugins of list that define hook, in order.
NamesDefining(list, hook) ==
    LET ps == SelectSeq(list, LAMBDA q : hook \in q.hooks)
    IN  [k \in DOMAIN ps |-> ps[k].name]

\* C18: once a guard redirect has resolved a navigation to a route other than the one
\* it first resolved to, its before and after phases run over the effective plugin
\* list of the new route: at the commit the beforeNavigation hooks invoked are those of
\* that list, at the end the afterNavigation hooks are, and no before or after hook of
\* a plugin outside that list is ever invoked.
C18_RedirectSwitchesPlugins ==
    \A n \in NavIds :
        LET nav == navs[n]
            list == EffectivePlugins(ResolvedRoute(nav.url))
        IN  (nav.redirects > 0 /\ ResolvedRoute(nav.url) # ResolvedRoute(nav.target)
                /\ ResolvedRoute(nav.url) # NoRoute)
                => /\ \A i \in DOMAIN nav.hooks :
                          nav.hooks[i][1] \in {"beforeNavigation", "afterNavigation"}
                              => \E k \in DOMAIN list : list[k].name = nav.hooks[i][2]
                   /\ nav.committed =>
                          InvokedOn(nav, "beforeNavigation") = NamesDefining(list, "beforeNavigation")
                   /\ nav.pc = "done" =>
                          InvokedOn(nav, "afterNavigation") = NamesDefining(list, "afterNavigation")

\* C19: at every commit the history entry pushed is the path and query of the url of
\* the context that is current, and notified, after the commit; also when the route
\* was resolved through the fallback.
C19_PushedEntryIsContextUrl ==
    [][\A n \in NavIds :
          CommitStep(n) => /\ lastEvent' = <<context'>>
                           /\ entries'[idx'] = PathAndSearch(context'.url)]_vars

\* How many times call nav invoked hook on the plugin called name.
Invocations(nav, hook, name) ==
    Cardinality({ i \in DOMAIN nav.hooks : nav.hooks[i] = <<hook, name>> })

\* How far call nav has got: the awaits of navigate in the order the code reaches them.
Progress(nav) ==
    LET len == Len(nav.plugins)
    IN  IF nav.pc = "shouldNavigate" THEN 2 * nav.i
        ELSE IF nav.pc = "condition" THEN 2 * nav.i + 1
        ELSE IF nav.pc = "beforeNavigation" THEN 2 * len + 2 + nav.i
        ELSE IF nav.pc = "afterNavigation" THEN 3 * len + 3 + nav.i
        ELSE 4 * len + 4

\* C20: in one navigate call shouldNavigate, and the condition of the guard it returns,
\* are invoked at most once per plugin of the list, so the call re-resolves at most
\* once per plugin whatever the redirects are; every step of the call takes it further
\* down the list of its awaits, and when every hook returns or throws the call comes to
\* its end, having committed or failed with an error.
C20_GuardPhaseBounded ==
    /\ [](\A n \in NavIds :
            LET nav == navs[n]
            IN  /\ \A k \in DOMAIN nav.plugins :
                      /\ Invocations(nav, "shouldNavigate", nav.plugins[k].name) <= 1
                      /\ Invocations(nav, "condition", nav.plugins[k].name) <= 1
                /\ nav.redirects <= Len(InvokedOn(nav, "condition"))
                /\ nav.redirects <= Len(nav.plugins)
                /\ nav.pc = "done" => nav.committed /\ nav.error = "none"
                /\ nav.pc = "failed" => nav.error # "none")
    /\ [][\A n \in InFlight : navs'[n] # navs[n] => Progress(navs'[n]) > Progress(navs[n])]_vars
    /\ \A n \in NavIds : (n \in InFlight) ~> (n \notin InFlight)

C20_Witness ==
    \E n \in NavIds :
        /\ navs[n].pc = "done" /\ Len(navs[n].plugins) = 2 /\ navs[n].redirects = 2
        /\ ResolvedRoute(navs[n].url) = ResolvedRoute(navs[n].target)

====
